---- MODULE Spec2Model ----
(***************************************************************************)
(* DestinationsPlugin of step5A_chat_completion_agent_plugin_with_kernel.py *)
(* : a catalog of destinations (self.destinations), the destination the    *)
(* last call returned (self.last_destination), and the one operation       *)
(* get_random_destination, which picks at random among the catalog minus   *)
(* the last destination.                                                   *)
(*                                                                         *)
(* Python values are records [type, val]: None and str are the two types   *)
(* the plugin's fields hold.  The catalog is a parameter of the model: the *)
(* literal list of __init__ is one of the catalogs Init draws, next to     *)
(* every duplicate-free list of at most MaxLen names over Names, which     *)
(* holds the empty string.                                                 *)
(*                                                                         *)
(* Spec runs whole calls one after the other (the script's single caller). *)
(* SpecConc runs NumCallers callers that share one plugin and interleave   *)
(* between the statements of get_random_destination.                       *)
(***************************************************************************)
EXTENDS Integers, Sequences, FiniteSets, TLC

VARIABLES
    destinations,      \* self.destinations
    last_destination,  \* self.last_destination
    catalog0,          \* history: self.destinations as __init__ built it
    calls,             \* history: calls of get_random_destination begun
    returns,           \* history: the values returned, in order of return
    isolated,          \* history: returns[i] came from a call that ran alone
    error,             \* the exception the latest finished call raised, or "none"
    pc,                \* per caller: the statement it is at ("idle" outside a call)
    available,         \* per caller: available_destinations
    destination,       \* per caller: destination
    overlap            \* per caller: its current call overlapped another call

vars == <<destinations, last_destination, catalog0, calls, returns, isolated,
          error, pc, available, destination, overlap>>

\* ---------------------------------------------------------------- bounds

\* Longest generated catalog.
MaxLen == 3

\* Calls of get_random_destination in one behaviour.
MaxCalls == 4

\* Callers sharing the plugin under SpecConc.
NumCallers == 2

\* ---------------------------------------------------------- Python values

PyNone == [type |-> "NoneType", val |-> ""]

PyStr(s) == [type |-> "str", val |-> s]

\* bool(v): None is false, a str is true unless it is empty.
Truthy(v) == v.type = "str" /\ v.val # ""

\* ---------------------------------------------------------------- catalogs

\* The list __init__ builds.
DESTINATIONS ==
    << PyStr("Barcelona, Spain"), PyStr("Paris, France"), PyStr("Berlin, Germany"),
       PyStr("Tokyo, Japan"), PyStr("Sydney, Australia"), PyStr("New York, USA"),
       PyStr("Cairo, Egypt"), PyStr("Cape Town, South Africa"),
       PyStr("Rio de Janeiro, Brazil"), PyStr("Bali, Indonesia") >>

\* Names of the generated catalogs; "" is the one falsy str.
Names == {"", "A", "B", "C"}

\* Every duplicate-free list of at most MaxLen names, the empty list included.
SmallCatalogs ==
    UNION { { [i \in 1..n |-> PyStr(f[i])] :
                f \in { g \in [1..n -> Names] :
                          \A i, j \in 1..n : i # j => g[i] # g[j] } } :
            n \in 0..MaxLen }

Catalogs == SmallCatalogs \cup {DESTINATIONS}

\* ------------------------------------------------------------ list helpers

Elements(l) == { l[i] : i \in 1..Len(l) }

Contains(l, x) == \E i \in 1..Len(l) : l[i] = x

\* list.remove(x): the list without its first element equal to x.
RemoveFirst(l, x) ==
    LET i == CHOOSE k \in 1..Len(l) :
                 l[k] = x /\ \A m \in 1..(k - 1) : l[m] # x
    IN  SubSeq(l, 1, i - 1) \o SubSeq(l, i + 1, Len(l))

\* random.choice(l): any element of l (IndexError on an empty l is the
\* caller's branch).
Choice(l) == Elements(l)

\* ------------------------------------------------ get_random_destination

\* The if statement without its length test.
ShouldExclude_NoLengthTest(last, avail) == Truthy(last)

\* The condition of the if statement.
ShouldExclude(last, avail) == Truthy(last) /\ Len(avail) > 1

\* The removal done on the stored list itself (no copy).
CopyAndExclude_Alias(dests, last) ==
    IF ShouldExclude(last, dests)
    THEN IF Contains(dests, last)
         THEN [available |-> RemoveFirst(dests, last),
               destinations |-> RemoveFirst(dests, last), raised |-> "none"]
         ELSE [available |-> dests, destinations |-> dests, raised |-> "ValueError"]
    ELSE [available |-> dests, destinations |-> dests, raised |-> "none"]

\* The copy of the catalog and the removal of the last destination from
\* it: the list the choice is made from, the stored catalog afterwards,
\* and the exception list.remove raises when the element is absent.
CopyAndExclude(dests, last) ==
    LET copy == dests
    IN  IF ShouldExclude(last, copy)
        THEN IF Contains(copy, last)
             THEN [available |-> RemoveFirst(copy, last),
                   destinations |-> dests, raised |-> "none"]
             ELSE [available |-> copy,
                   destinations |-> dests, raised |-> "ValueError"]
        ELSE [available |-> copy, destinations |-> dests, raised |-> "none"]

\* The assignment left out.
NewLast_Kept(dest, last) == last

\* self.last_destination = destination
NewLast(dest, last) == dest

\* The field returned as it was when the call began.
Returned_Stale(dest, last) == last

\* return destination
Returned(dest, last) == dest

\* -------------------------------------------------------------- callers

Callers == 1..NumCallers

Init ==
    /\ destinations \in Catalogs
    /\ catalog0 = destinations
    /\ last_destination = PyNone
    /\ calls = 0
    /\ returns = << >>
    /\ isolated = << >>
    /\ error = "none"
    /\ pc = [c \in Callers |-> "idle"]
    /\ available = [c \in Callers |-> << >>]
    /\ destination = [c \in Callers |-> PyNone]
    /\ overlap = [c \in Callers |-> FALSE]

\* One whole call, nothing interleaved.
get_random_destination ==
    /\ calls < MaxCalls
    /\ calls' = calls + 1
    /\ LET r == CopyAndExclude(destinations, last_destination)
       IN  /\ destinations' = r.destinations
           /\ IF r.raised # "none"
              THEN /\ error' = r.raised
                   /\ UNCHANGED <<last_destination, returns, isolated>>
              ELSE IF r.available = << >>
              THEN /\ error' = "IndexError"
                   /\ UNCHANGED <<last_destination, returns, isolated>>
              ELSE \E d \in Choice(r.available) :
                   /\ last_destination' = NewLast(d, last_destination)
                   /\ returns' = Append(returns, Returned(d, last_destination))
                   /\ isolated' = Append(isolated, TRUE)
                   /\ error' = "none"
    /\ UNCHANGED <<catalog0, pc, available, destination, overlap>>

Next == get_random_destination

Spec == Init /\ [][Next]_vars

\* ------------------------------------------------- interleaved callers

\* The catalogs SpecConc starts from: the generated ones.
InitConc ==
    /\ Init
    /\ destinations \in SmallCatalogs

\* Caller c enters the call: copies the catalog, reads last_destination and
\* removes it from the copy.  A call that starts while another is under way
\* overlaps it.
Exclude(c) ==
    /\ pc[c] = "idle"
    /\ calls < MaxCalls
    /\ calls' = calls + 1
    /\ overlap' = IF \E o \in Callers : o # c /\ pc[o] # "idle"
                  THEN [o \in Callers |-> overlap[o] \/ o = c \/ pc[o] # "idle"]
                  ELSE [overlap EXCEPT ![c] = FALSE]
    /\ LET r == CopyAndExclude(destinations, last_destination)
       IN  /\ destinations' = r.destinations
           /\ IF r.raised # "none"
              THEN /\ error' = r.raised
                   /\ UNCHANGED <<pc, available>>
              ELSE /\ available' = [available EXCEPT ![c] = r.available]
                   /\ pc' = [pc EXCEPT ![c] = "choose"]
                   /\ UNCHANGED error
    /\ UNCHANGED <<last_destination, catalog0, returns, isolated, destination>>

\* destination = random.choice(available_destinations)
Choose(c) ==
    /\ pc[c] = "choose"
    /\ IF available[c] = << >>
       THEN /\ error' = "IndexError"
            /\ pc' = [pc EXCEPT ![c] = "idle"]
            /\ UNCHANGED destination
       ELSE \E d \in Choice(available[c]) :
            /\ destination' = [destination EXCEPT ![c] = d]
            /\ pc' = [pc EXCEPT ![c] = "update"]
            /\ UNCHANGED error
    /\ UNCHANGED <<destinations, last_destination, catalog0, calls, returns,
                   isolated, available, overlap>>

\* self.last_destination = destination
Update(c) ==
    /\ pc[c] = "update"
    /\ last_destination' = NewLast(destination[c], last_destination)
    /\ pc' = [pc EXCEPT ![c] = "return"]
    /\ UNCHANGED <<destinations, catalog0, calls, returns, isolated, error,
                   available, destination, overlap>>

\* return destination
Return(c) ==
    /\ pc[c] = "return"
    /\ returns' = Append(returns, destination[c])
    /\ isolated' = Append(isolated, ~overlap[c])
    /\ error' = "none"
    /\ pc' = [pc EXCEPT ![c] = "idle"]
    /\ UNCHANGED <<destinations, last_destination, catalog0, calls, available,
                   destination, overlap>>

NextConc == \E c \in Callers : Exclude(c) \/ Choose(c) \/ Update(c) \/ Return(c)

SpecConc == InitConc /\ [][NextConc]_vars

\* ================================================================ claims

Last(s) == s[Len(s)]

\* Positions of the log of returned values that have a successor.
Consecutive == 1..(Len(returns) - 1)

NoRepeatAfterNonEmptyName ==
    Len(catalog0) >= 2 =>
        \A i \in Consecutive : Truthy(returns[i]) => returns[i + 1] # returns[i]

\* C2: every value returned is a member of the catalog as built at
\* construction.
C2_ReturnsAreCatalogMembers ==
    \A i \in 1..Len(returns) : returns[i] \in Elements(catalog0)

C2_Witness ==
    /\ Len(catalog0) >= 2
    /\ Len(returns) >= 3

\* C3: last_destination is None before the first call; after a call has
\* returned it is the value the most recent call returned; once set it is
\* never None again.
C3_LastIsMostRecentReturn ==
    /\ [](/\ calls = 0 => last_destination = PyNone
          /\ returns = << >> => last_destination = PyNone
          /\ returns # << >> => last_destination = Last(returns))
    /\ [][last_destination # PyNone => last_destination' # PyNone]_vars

C3_Witness ==
    /\ Len(returns) >= 2
    /\ returns[1] # returns[2]
    /\ last_destination = returns[2]

\* C4: with a catalog of one destination every call completes without an
\* exception and returns that destination.
C4_SingletonAlwaysReturned ==
    Len(catalog0) = 1 =>
        /\ error = "none"
        /\ Len(returns) = calls
        /\ \A i \in 1..Len(returns) : returns[i] = catalog0[1]

C4_Witness ==
    /\ Len(catalog0) = 1
    /\ Truthy(catalog0[1])
    /\ Len(returns) >= 3

EligibleSet ==
    IF last_destination # PyNone /\ Len(catalog0) > 1
    THEN Elements(catalog0) \ {last_destination}
    ELSE Elements(catalog0)

\* The next call returns v.
CallReturns(v) == get_random_destination /\ returns' = Append(returns, v)

NextOutcomesExcludeNonEmptyLast ==
    calls < MaxCalls =>
        \A v \in Elements(catalog0) \cup {PyNone} :
            (ENABLED CallReturns(v)) <=>
                v \in (IF Truthy(last_destination) /\ Len(catalog0) > 1
                       THEN Elements(catalog0) \ {last_destination}
                       ELSE Elements(catalog0))

\* C8: the stored catalog keeps the elements and the order it had at
\* construction, whatever calls were made.
C8_CatalogUnchanged == destinations = catalog0

C8_Witness ==
    /\ Len(catalog0) >= 2
    /\ Len(returns) >= 2
    /\ Truthy(returns[1])
    /\ destinations = catalog0

SerializedCallsNeverRepeatNonEmptyName ==
    Len(catalog0) >= 2 =>
        \A i \in Consecutive :
            (isolated[i] /\ isolated[i + 1] /\ Truthy(returns[i]))
                => returns[i + 1] # returns[i]

====
